---------------------------- MODULE Spec2Model ----------------------------
(***************************************************************************)
(* Model of top-n-spotify.py: the release pagination, the two batched      *)
(* fetches, the age-adjusted score, the stable sort, the name              *)
(* de-duplicating selection and the playlist publication of main(),        *)
(* together with parse_release_date and calculate_custom_score.            *)
(*                                                                         *)
(* Strings whose content the code inspects (release dates) are sequences   *)
(* of one-character strings.  Times are proleptic Gregorian day ordinals   *)
(* (datetime.toordinal()); timedelta.days of "now - midnight of a date"    *)
(* is the difference of the two ordinals.  Scores are kept in thousandths  *)
(* (math.log and math.sqrt tabulated to three decimals).                   *)
(***************************************************************************)
EXTENDS Integers, Sequences, FiniteSets, TLC

VARIABLES
    catalog,              \* what the Spotify service answers (fixed during a run)
    top_n_arg,            \* args.top_n
    aggressiveness_arg,   \* args.aggressiveness
    clock,                \* day ordinal datetime.now() currently reads
    pc,                   \* position of main()
    offset,               \* line 119
    all_releases,         \* line 118
    album_ids,            \* line 128
    track_ids,            \* line 132
    all_tracks,           \* line 142 / 150
    unique_by_id_tracks,  \* line 151
    keys,                 \* sort keys computed so far by sorted() (line 158)
    sorted_tracks,        \* line 156
    final_tracks,         \* line 163
    seen_names,           \* line 164
    track_uris,           \* line 188
    i,                    \* loop index of the for loops
    calls,                \* every service call issued, in order, with its outcome
    playlist,             \* the playlist as the service holds it
    printed,              \* the user-visible outcome lines printed
    error,                \* the exception that ended main(), or "none"
    date_str,             \* argument of a stand-alone parse_release_date call
    parsed                \* its result

vars == <<catalog, top_n_arg, aggressiveness_arg, clock, pc, offset, all_releases,
          album_ids, track_ids, all_tracks, unique_by_id_tracks, keys, sorted_tracks,
          final_tracks, seen_names, track_uris, i, calls, playlist, printed, error,
          date_str, parsed>>

-----------------------------------------------------------------------------
(* Bounds of the model                                                     *)

\* bulk catalogs hold 0..MaxReleases one-track releases
MaxReleases == 101
\* detailed catalogs hold 0..MaxTracks tracks
MaxTracks == 3
\* top_n requested against a detailed catalog: 1..MaxTopN
MaxTopN == 2
\* the large top_n requested against a bulk catalog
LargeTopN == 150
\* days the clock may advance while the sort keys are computed
MaxTicks == 1

(* Program constants                                                       *)
PageLimit == 50
AlbumChunk == 20
TrackChunk == 50
AddChunk == 100
DefaultAggressiveness == 1

Min(a, b) == IF a < b THEN a ELSE b

\* Python's s[a:b] for 0 <= a, on a 1-based sequence
Slice(s, a, b) == SubSeq(s, a + 1, Min(b, Len(s)))

-----------------------------------------------------------------------------
(* Text                                                                    *)

Digits == <<"0", "1", "2", "3", "4", "5", "6", "7", "8", "9">>

IsDigit(c) == \E k \in 1..10 : Digits[k] = c

DigitVal(c) == (CHOOSE k \in 1..10 : Digits[k] = c) - 1

RECURSIVE Split(_)
\* str.split('-'): the empty string splits into one empty part
Split(s) ==
    IF \A k \in 1..Len(s) : s[k] # "-" THEN <<s>>
    ELSE LET p == CHOOSE k \in 1..Len(s) : s[k] = "-" /\ \A j \in 1..(k - 1) : s[j] # "-"
         IN <<SubSeq(s, 1, p - 1)>> \o Split(SubSeq(s, p + 1, Len(s)))

RECURSIVE Decimal(_)
Decimal(s) == IF s = <<>> THEN 0 ELSE 10 * Decimal(SubSeq(s, 1, Len(s) - 1)) + DigitVal(s[Len(s)])

\* int(s) on a string of digits and letters: ValueError unless all digits, not empty
ToInt(s) ==
    IF s # <<>> /\ \A k \in 1..Len(s) : IsDigit(s[k])
    THEN [raised |-> FALSE, val |-> Decimal(s)]
    ELSE [raised |-> TRUE, val |-> 0]

RECURSIVE Str(_)
\* str(n) for n >= 0
Str(n) == IF n < 10 THEN <<Digits[n + 1]>> ELSE Str(n \div 10) \o <<Digits[(n % 10) + 1]>>

-----------------------------------------------------------------------------
(* Dates                                                                   *)

IsLeap(y) == (y % 4 = 0) /\ ((y % 100 # 0) \/ (y % 400 = 0))

DaysInMonth(y, m) ==
    IF m = 2 THEN (IF IsLeap(y) THEN 29 ELSE 28)
    ELSE IF m \in {4, 6, 9, 11} THEN 30 ELSE 31

RECURSIVE DaysBeforeMonth(_, _)
DaysBeforeMonth(y, m) == IF m = 1 THEN 0 ELSE DaysBeforeMonth(y, m - 1) + DaysInMonth(y, m - 1)

\* datetime(y, m, d): ValueError outside the calendar, else the day's ordinal
MakeDate(y, m, d) ==
    IF y >= 1 /\ y <= 9999 /\ m >= 1 /\ m <= 12 /\ d >= 1 /\ d <= DaysInMonth(y, m)
    THEN [raised |-> FALSE,
          ord |-> (y - 1) * 365 + ((y - 1) \div 4) - ((y - 1) \div 100) + ((y - 1) \div 400)
                  + DaysBeforeMonth(y, m) + d]
    ELSE [raised |-> TRUE, ord |-> 0]

\* datetime.fromisoformat on a string of digits, letters and hyphens with no
\* time part: only "YYYY-MM-DD" naming a calendar day is accepted
FromIsoFormat(s) ==
    IF /\ Len(s) = 10
       /\ s[5] = "-" /\ s[8] = "-"
       /\ \A k \in {1, 2, 3, 4, 6, 7, 9, 10} : IsDigit(s[k])
    THEN MakeDate(Decimal(SubSeq(s, 1, 4)), Decimal(SubSeq(s, 6, 7)), Decimal(SubSeq(s, 9, 10)))
    ELSE [raised |-> TRUE, ord |-> 0]

\* the guards of lines 17 and 18 as written
ParseFallback(parts, now) ==
    IF Len(parts) = 1
    THEN LET y == ToInt(parts[1])
         IN IF y.raised THEN [raised |-> TRUE, ord |-> 0] ELSE MakeDate(y.val, 1, 1)
    ELSE IF Len(parts) = 2
    THEN LET y == ToInt(parts[1])
             m == ToInt(parts[2])
         IN IF y.raised \/ m.raised THEN [raised |-> TRUE, ord |-> 0]
            ELSE MakeDate(y.val, m.val, 1)
    ELSE [raised |-> FALSE, ord |-> now]

\* parse_release_date: an exception raised inside the except clause propagates
parse_release_date(s, now) ==
    LET iso == FromIsoFormat(s)
    IN IF ~iso.raised THEN iso ELSE ParseFallback(Split(s), now)

-----------------------------------------------------------------------------
(* Score                                                                   *)

\* floor(1000 * math.log(a)), a = 1..60
LnMilli ==
    <<0, 693, 1098, 1386, 1609, 1791, 1945, 2079, 2197, 2302, 2397, 2484, 2564, 2639,
      2708, 2772, 2833, 2890, 2944, 2995, 3044, 3091, 3135, 3178, 3218, 3258, 3295,
      3332, 3367, 3401, 3433, 3465, 3496, 3526, 3555, 3583, 3610, 3637, 3663, 3688,
      3713, 3737, 3761, 3784, 3806, 3828, 3850, 3871, 3891, 3912, 3931, 3951, 3970,
      3988, 4007, 4025, 4043, 4060, 4077, 4094>>

\* floor(1000 * math.log(math.log(a) + 1)), a = 1..60
LnLnMilli ==
    <<0, 526, 741, 869, 959, 1026, 1080, 1124, 1162, 1194, 1223, 1248, 1271, 1291,
      1310, 1327, 1343, 1358, 1372, 1385, 1397, 1408, 1419, 1429, 1439, 1448, 1457,
      1466, 1474, 1481, 1489, 1496, 1503, 1509, 1516, 1522, 1528, 1534, 1539, 1545,
      1550, 1555, 1560, 1565, 1570, 1574, 1579, 1583, 1587, 1591, 1595, 1599, 1603,
      1607, 1610, 1614, 1618, 1621, 1624, 1628>>

\* floor(1000 * math.sqrt(a)), a = 1..60
SqrtMilli ==
    <<1000, 1414, 1732, 2000, 2236, 2449, 2645, 2828, 3000, 3162, 3316, 3464, 3605,
      3741, 3872, 4000, 4123, 4242, 4358, 4472, 4582, 4690, 4795, 4898, 5000, 5099,
      5196, 5291, 5385, 5477, 5567, 5656, 5744, 5830, 5916, 6000, 6082, 6164, 6244,
      6324, 6403, 6480, 6557, 6633, 6708, 6782, 6855, 6928, 7000, 7071, 7141, 7211,
      7280, 7348, 7416, 7483, 7549, 7615, 7681, 7745>>

\* lines 42-49, in thousandths
Multiplier(aggressiveness, age_factor) ==
    IF aggressiveness = 1 THEN LnLnMilli[age_factor]
    ELSE IF aggressiveness = 2 THEN LnMilli[age_factor]
    ELSE IF aggressiveness = 3 THEN SqrtMilli[age_factor]
    ELSE LnMilli[age_factor]

\* lines 34-40: timedelta.days of now - release_date, floored at 0, plus 2
AgeFactor(release_ord, now) ==
    LET days_since_release == now - release_ord
    IN (IF days_since_release < 0 THEN 0 ELSE days_since_release) + 2

\* calculate_custom_score(track, aggressiveness) when datetime.now() reads `now`;
\* the score in thousandths, or the ValueError of parse_release_date
calculate_custom_score(track, aggressiveness, now) ==
    IF aggressiveness = 0 THEN [raised |-> FALSE, score |-> 1000 * track.popularity]
    ELSE IF track.release_date = <<>> THEN [raised |-> FALSE, score |-> 1000 * track.popularity]
    ELSE LET release_date == parse_release_date(track.release_date, now)
         IN IF release_date.raised THEN [raised |-> TRUE, score |-> 0]
            ELSE [raised |-> FALSE,
                  score |-> track.popularity
                            * Multiplier(aggressiveness, AgeFactor(release_date.ord, now))]

-----------------------------------------------------------------------------
(* The service: what sp.search, sp.artist_albums, sp.albums and sp.tracks  *)
(* answer for a catalog                                                    *)

Null == [null |-> TRUE]

IsNull(x) == "null" \in DOMAIN x

\* results['items'], results['next'] of sp.artist_albums(..., limit, offset)
ArtistAlbumsPage(cat, limit, off) ==
    [items |-> Slice(cat.releases, off, off + limit),
     next |-> off + limit < Len(cat.releases)]

\* sp.albums(chunk)['albums']: one slot per id, Null for an album not resolved
AlbumsResponse(cat, chunk) == [k \in 1..Len(chunk) |-> cat.albums[chunk[k]]]

\* sp.tracks(chunk)['tracks']: one slot per id, Null for a track not resolved
TracksResponse(cat, chunk) == [k \in 1..Len(chunk) |-> cat.tracks[chunk[k]]]

Release(r) == [id |-> r, album_type |-> IF r % 2 = 1 THEN "album" ELSE "single"]

\* a track record; release_date stands for track['album']['release_date'],
\* <<>> when the record carries none
Track(t, name, popularity, release_date) ==
    [id |-> t, name |-> name, popularity |-> popularity, release_date |-> release_date,
     uri |-> <<"spotify:track:", t>>]

\* n releases of one track each, all tracks named differently, no release date
BulkCatalog(n) ==
    [found |-> TRUE,
     releases |-> [r \in 1..n |-> Release(r)],
     albums |-> [r \in 1..n |-> [tracks |-> <<r>>]],
     tracks |-> [t \in 1..n |-> Track(t, Str(t), (37 * t) % 101, <<>>)]]

\* name, popularity and release date of the tracks of the detailed catalogs
Shapes ==
    { [name |-> <<"A">>, popularity |-> 80,
       release_date |-> <<"2", "0", "0", "1", "-", "0", "2", "-", "0", "3">>],
      [name |-> <<"A">>, popularity |-> 60, release_date |-> <<"2", "0", "0", "1">>],
      [name |-> <<"B">>, popularity |-> 50,
       release_date |-> <<"2", "0", "0", "1", "-", "0", "2">>],
      [name |-> <<"a">>, popularity |-> 80, release_date |-> <<>>],
      [name |-> <<"B">>, popularity |-> 60, release_date |-> <<"x">>] }

\* how the second release of a detailed catalog resolves
Seconds == {"absent", "single", "unresolved"}

\* an album holding every track, then possibly a single repeating track 1 or
\* a release sp.albums does not resolve
DetailCatalog(sh, second) ==
    LET n == Len(sh)
        nrel == IF second = "absent" THEN 1 ELSE 2
    IN [found |-> TRUE,
        releases |-> [r \in 1..nrel |-> Release(r)],
        albums |-> [r \in 1..nrel |->
                      IF r = 1 THEN [tracks |-> [t \in 1..n |-> t]]
                      ELSE IF second = "unresolved" THEN Null
                      ELSE [tracks |-> IF n >= 1 THEN <<1>> ELSE <<>>]],
        tracks |-> [t \in 1..n |->
                      IF IsNull(sh[t]) THEN Null
                      ELSE Track(t, sh[t].name, sh[t].popularity, sh[t].release_date)]]

NotFoundCatalog == [found |-> FALSE, releases |-> <<>>, albums |-> <<>>, tracks |-> <<>>]

BulkCatalogs == {BulkCatalog(n) : n \in 0..MaxReleases}

DetailCatalogs ==
    {DetailCatalog(sh, second) :
        sh \in UNION {[1..n -> Shapes \cup {Null}] : n \in 0..MaxTracks},
        second \in Seconds}

\* the day datetime.now() reads when main() starts
Now0 == MakeDate(2001, 2, 3).ord

-----------------------------------------------------------------------------
(* Pure steps of main()                                                    *)

\* ids[i:i+size+1]: one id too many in a slice
ChunkOverlong(ids, at, size) == Slice(ids, at, at + size + 1)

\* lines 134, 144, 191: ids[i:i+size]
Chunk(ids, at, size) == Slice(ids, at, at + size)

\* the first page taken for the whole catalog
ContinuePagingNever(results) == FALSE

\* line 123: whether another page is requested
ContinuePaging(results) == results.next

\* line 124
NextOffset(off) == off + PageLimit

RECURSIVE TrackIdsUntilNull(_)
\* lines 136-138: the ids appended before album['tracks'] is taken of a None
TrackIdsUntilNull(albums) ==
    IF albums = <<>> \/ IsNull(Head(albums)) THEN <<>>
    ELSE Head(albums).tracks \o TrackIdsUntilNull(Tail(albums))

\* line 150
DropNone(tracks) == SelectSeq(tracks, LAMBDA t : ~IsNull(t))

RECURSIVE DictValues(_, _)
\* line 151: a dict keeps the position of an id's first insertion and the
\* value of its last
DictValues(d, tracks) ==
    IF tracks = <<>> THEN d
    ELSE LET t == Head(tracks)
         IN IF \E k \in 1..Len(d) : d[k].id = t.id
            THEN DictValues([d EXCEPT ![CHOOSE k \in 1..Len(d) : d[k].id = t.id] = t],
                            Tail(tracks))
            ELSE DictValues(Append(d, t), Tail(tracks))

UniqueById(tracks) == DictValues(<<>>, tracks)

\* an ascending stable sort read backwards: elements of equal key swap places
SortedPositionUnstable(ks, k) ==
    Cardinality({j \in 1..Len(ks) : ks[j] > ks[k]})
    + Cardinality({j \in (k + 1)..Len(ks) : ks[j] = ks[k]}) + 1

\* position in sorted(xs, key, reverse=True) of xs[k]: after every element of
\* greater key and after the earlier elements of equal key (the sort is stable)
SortedPosition(ks, k) ==
    Cardinality({j \in 1..Len(ks) : ks[j] > ks[k]})
    + Cardinality({j \in 1..(k - 1) : ks[j] = ks[k]}) + 1

\* lines 156-160
SortedByKeyReverse(xs, ks) ==
    LET pos == [k \in 1..Len(xs) |-> SortedPosition(ks, k)]
    IN [p \in 1..Len(xs) |-> xs[CHOOSE k \in 1..Len(xs) : pos[k] = p]]

\* > for >=
ShouldBreakLate(final, top_n) == Len(final) > top_n

\* line 166
ShouldBreak(final, top_n) == Len(final) >= top_n

\* the name test left out
IsNewNameAlways(track_name, seen) == TRUE

\* line 169
IsNewName(track_name, seen) == track_name \notin seen

\* the empty result not told apart
NoTracksNever(final) == FALSE

\* line 173
NoTracks(final) == final = <<>>

\* the exception swallowed and the statement tried again
RaiseSwallowed(e) == pc' = pc /\ error' = e

\* an exception leaving main(): nothing after the raising statement runs
Raise(e) == pc' = "raised" /\ error' = e

Line(msg, n) == [msg |-> msg, n |-> n]

Call(op, arg, ok) == [op |-> op, arg |-> arg, ok |-> ok]

-----------------------------------------------------------------------------
(* Initial states                                                          *)

\* main() before its first statement
Fresh ==
    /\ offset = 0
    /\ all_releases = <<>>
    /\ album_ids = <<>>
    /\ track_ids = <<>>
    /\ all_tracks = <<>>
    /\ unique_by_id_tracks = <<>>
    /\ keys = <<>>
    /\ sorted_tracks = <<>>
    /\ final_tracks = <<>>
    /\ seen_names = {}
    /\ track_uris = <<>>
    /\ i = 0
    /\ calls = <<>>
    /\ playlist = [created |-> FALSE, items |-> <<>>]
    /\ printed = <<>>
    /\ error = "none"
    /\ parsed = Null

InitProgram ==
    /\ Fresh
    /\ clock = Now0
    /\ pc = "search"
    /\ date_str = <<>>

InitBulk ==
    /\ InitProgram
    /\ catalog \in BulkCatalogs \cup {NotFoundCatalog}
    /\ top_n_arg \in {1, LargeTopN}
    /\ aggressiveness_arg = DefaultAggressiveness

InitDetail ==
    /\ InitProgram
    /\ catalog \in DetailCatalogs \cup {NotFoundCatalog}
    /\ top_n_arg \in 1..MaxTopN
    /\ aggressiveness_arg \in 0..3

Init == InitBulk \/ InitDetail

-----------------------------------------------------------------------------
(* main()                                                                  *)

env == <<catalog, top_n_arg, aggressiveness_arg, date_str, parsed>>

\* lines 107-115
Search ==
    /\ pc = "search"
    /\ \E ok \in BOOLEAN :
          /\ calls' = Append(calls, Call("search", "artist", ok))
          /\ IF ~ok
             THEN /\ Raise("SpotifyException")
                  /\ UNCHANGED printed
             ELSE IF ~catalog.found
             THEN /\ printed' = Append(printed, Line("could_not_find_artist", 0))
                  /\ pc' = "done"
                  /\ UNCHANGED error
             ELSE /\ pc' = "artist_albums"
                  /\ UNCHANGED <<printed, error>>
    /\ UNCHANGED <<env, clock, offset, all_releases, album_ids, track_ids, all_tracks,
                   unique_by_id_tracks, keys, sorted_tracks, final_tracks, seen_names,
                   track_uris, i, playlist>>

\* lines 118-129: one pass of the while loop
ArtistAlbums ==
    /\ pc = "artist_albums"
    /\ \E ok \in BOOLEAN :
          /\ calls' = Append(calls, Call("artist_albums", <<PageLimit, offset>>, ok))
          /\ IF ~ok
             THEN /\ Raise("SpotifyException")
                  /\ UNCHANGED <<offset, all_releases, album_ids>>
             ELSE LET results == ArtistAlbumsPage(catalog, PageLimit, offset)
                  IN /\ all_releases' = all_releases \o results.items
                     /\ IF ContinuePaging(results)
                        THEN /\ offset' = NextOffset(offset)
                             /\ UNCHANGED <<pc, album_ids>>
                        ELSE /\ album_ids' = [k \in 1..Len(all_releases') |-> all_releases'[k].id]
                             /\ pc' = "albums"
                             /\ UNCHANGED offset
                     /\ UNCHANGED error
    /\ UNCHANGED <<env, clock, track_ids, all_tracks, unique_by_id_tracks, keys,
                   sorted_tracks, final_tracks, seen_names, track_uris, i, playlist,
                   printed>>

\* lines 132-138: one pass of the for loop, or its end
Albums ==
    /\ pc = "albums"
    /\ IF i >= Len(album_ids)
       THEN /\ pc' = "tracks"
            /\ i' = 0
            /\ UNCHANGED <<track_ids, calls, error>>
       ELSE \E ok \in BOOLEAN :
              LET chunk == Chunk(album_ids, i, AlbumChunk)
                  album_details_list == AlbumsResponse(catalog, chunk)
              IN /\ calls' = Append(calls, Call("albums", chunk, ok))
                 /\ IF ~ok
                    THEN /\ Raise("SpotifyException")
                         /\ UNCHANGED <<track_ids, i>>
                    ELSE /\ track_ids' = track_ids \o TrackIdsUntilNull(album_details_list)
                         /\ IF \E k \in 1..Len(album_details_list) : IsNull(album_details_list[k])
                            THEN /\ Raise("TypeError")
                                 /\ UNCHANGED i
                            ELSE /\ i' = i + AlbumChunk
                                 /\ UNCHANGED <<pc, error>>
    /\ UNCHANGED <<env, clock, offset, all_releases, album_ids, all_tracks,
                   unique_by_id_tracks, keys, sorted_tracks, final_tracks, seen_names,
                   track_uris, playlist, printed>>

\* lines 142-146: one pass of the for loop, or its end
Tracks ==
    /\ pc = "tracks"
    /\ IF i >= Len(track_ids)
       THEN /\ pc' = "filter"
            /\ UNCHANGED <<all_tracks, i, calls, error>>
       ELSE \E ok \in BOOLEAN :
              LET chunk == Chunk(track_ids, i, TrackChunk)
              IN /\ calls' = Append(calls, Call("tracks", chunk, ok))
                 /\ IF ~ok
                    THEN /\ Raise("SpotifyException")
                         /\ UNCHANGED <<all_tracks, i>>
                    ELSE /\ all_tracks' = all_tracks \o TracksResponse(catalog, chunk)
                         /\ i' = i + TrackChunk
                         /\ UNCHANGED <<pc, error>>
    /\ UNCHANGED <<env, clock, offset, all_releases, album_ids, track_ids,
                   unique_by_id_tracks, keys, sorted_tracks, final_tracks, seen_names,
                   track_uris, playlist, printed>>

\* lines 150-151
Filter ==
    /\ pc = "filter"
    /\ all_tracks' = DropNone(all_tracks)
    /\ unique_by_id_tracks' = UniqueById(all_tracks')
    /\ pc' = "sorted"
    /\ UNCHANGED <<env, clock, offset, all_releases, album_ids, track_ids, keys,
                   sorted_tracks, final_tracks, seen_names, track_uris, i, calls,
                   playlist, printed, error>>

\* lines 156-160: sorted() calls the key function once per element, in list
\* order, each call reading datetime.now() anew, and then orders the list
Sorted ==
    /\ pc = "sorted"
    /\ IF Len(keys) = Len(unique_by_id_tracks)
       THEN /\ sorted_tracks' = SortedByKeyReverse(unique_by_id_tracks, keys)
            /\ pc' = "select"
            /\ i' = 1
            /\ UNCHANGED <<clock, keys, error>>
       ELSE \E now \in clock..Min(clock + 1, Now0 + MaxTicks) :
              LET r == calculate_custom_score(unique_by_id_tracks[Len(keys) + 1],
                                              aggressiveness_arg, now)
              IN /\ clock' = now
                 /\ IF r.raised
                    THEN /\ Raise("ValueError")
                         /\ UNCHANGED keys
                    ELSE /\ keys' = Append(keys, r.score)
                         /\ UNCHANGED <<pc, error>>
                 /\ UNCHANGED <<sorted_tracks, i>>
    /\ UNCHANGED <<env, offset, all_releases, album_ids, track_ids, all_tracks,
                   unique_by_id_tracks, final_tracks, seen_names, track_uris, calls,
                   playlist, printed>>

\* lines 163-171: one pass of the for loop, its break or its end
Select ==
    /\ pc = "select"
    /\ IF i > Len(sorted_tracks) \/ ShouldBreak(final_tracks, top_n_arg)
       THEN /\ pc' = "report"
            /\ UNCHANGED <<final_tracks, seen_names, i>>
       ELSE LET track == sorted_tracks[i]
            IN /\ IF IsNewName(track.name, seen_names)
                  THEN /\ final_tracks' = Append(final_tracks, track)
                       /\ seen_names' = seen_names \cup {track.name}
                  ELSE UNCHANGED <<final_tracks, seen_names>>
               /\ i' = i + 1
               /\ UNCHANGED pc
    /\ UNCHANGED <<env, clock, offset, all_releases, album_ids, track_ids, all_tracks,
                   unique_by_id_tracks, keys, sorted_tracks, track_uris, calls, playlist,
                   printed, error>>

\* lines 173-177
Report ==
    /\ pc = "report"
    /\ IF NoTracks(final_tracks)
       THEN /\ printed' = Append(printed, Line("found_no_popular_tracks", 0))
            /\ pc' = "done"
       ELSE /\ printed' = Append(printed, Line("found_the_top", Len(final_tracks)))
            /\ pc' = "create"
    /\ UNCHANGED <<env, clock, offset, all_releases, album_ids, track_ids, all_tracks,
                   unique_by_id_tracks, keys, sorted_tracks, final_tracks, seen_names,
                   track_uris, i, calls, playlist, error>>

\* lines 179-188
CreatePlaylist ==
    /\ pc = "create"
    /\ \E ok \in BOOLEAN :
          /\ calls' = Append(calls, Call("user_playlist_create", top_n_arg, ok))
          /\ IF ~ok
             THEN /\ Raise("SpotifyException")
                  /\ UNCHANGED <<playlist, track_uris, i>>
             ELSE /\ playlist' = [created |-> TRUE, items |-> <<>>]
                  /\ track_uris' = [k \in 1..Len(final_tracks) |-> final_tracks[k].uri]
                  /\ i' = 0
                  /\ pc' = "add"
                  /\ UNCHANGED error
    /\ UNCHANGED <<env, clock, offset, all_releases, album_ids, track_ids, all_tracks,
                   unique_by_id_tracks, keys, sorted_tracks, final_tracks, seen_names,
                   printed>>

\* lines 190-197: one pass of the for loop, or its end
AddItems ==
    /\ pc = "add"
    /\ IF i >= Len(track_uris)
       THEN /\ printed' = Append(printed, Line("all_done", 0))
            /\ pc' = "done"
            /\ UNCHANGED <<i, calls, playlist, error>>
       ELSE \E ok \in BOOLEAN :
              LET chunk == Chunk(track_uris, i, AddChunk)
              IN /\ calls' = Append(calls, Call("playlist_add_items", chunk, ok))
                 /\ IF ~ok
                    THEN /\ Raise("SpotifyException")
                         /\ UNCHANGED <<i, playlist, printed>>
                    ELSE /\ playlist' = [playlist EXCEPT !.items = @ \o chunk]
                         /\ i' = i + AddChunk
                         /\ UNCHANGED <<pc, error, printed>>
    /\ UNCHANGED <<env, clock, offset, all_releases, album_ids, track_ids, all_tracks,
                   unique_by_id_tracks, keys, sorted_tracks, final_tracks, seen_names,
                   track_uris>>

Next ==
    \/ Search
    \/ ArtistAlbums
    \/ Albums
    \/ Tracks
    \/ Filter
    \/ Sorted
    \/ Select
    \/ Report
    \/ CreatePlaylist
    \/ AddItems

Spec == Init /\ [][Next]_vars

\* the bulk catalogs alone; main() is one thread of blocking calls, so a pass of
\* the while loop that can be taken is eventually taken
LiveSpec == InitBulk /\ [][Next]_vars /\ WF_vars(ArtistAlbums)

-----------------------------------------------------------------------------
(* parse_release_date on its own                                           *)

Parts ==
    { <<"2", "0", "0", "1">>, <<"2", "0", "0", "0">>, <<"0", "0", "0", "0">>,
      <<"0", "2">>, <<"1", "3">>, <<"2", "9">>, <<"0", "0">>, <<"5">>, <<"x">>, <<>> }

\* one, two or three parts joined by hyphens; the empty string never reaches
\* parse_release_date (line 30)
DateStrings ==
    (Parts \ {<<>>})
    \cup {a \o <<"-">> \o b : a \in Parts, b \in Parts}
    \cup {a \o <<"-">> \o b \o <<"-">> \o c : a \in Parts, b \in Parts, c \in Parts}

ParseInit ==
    /\ Fresh
    /\ catalog = NotFoundCatalog
    /\ top_n_arg = 1
    /\ aggressiveness_arg = DefaultAggressiveness
    /\ clock = Now0
    /\ pc = "parse"
    /\ date_str \in DateStrings

\* one call parse_release_date(date_str)
Parse ==
    /\ pc = "parse"
    /\ parsed' = parse_release_date(date_str, clock)
    /\ pc' = "parsed"
    /\ UNCHANGED <<catalog, top_n_arg, aggressiveness_arg, date_str, clock, offset,
                   all_releases, album_ids, track_ids, all_tracks, unique_by_id_tracks,
                   keys, sorted_tracks, final_tracks, seen_names, track_uris, i, calls,
                   playlist, printed, error>>

ParseNext == Parse

ParseSpec == ParseInit /\ [][ParseNext]_vars

-----------------------------------------------------------------------------
(* Properties                                                              *)

RECURSIVE Concat(_)
\* the concatenation of a sequence of sequences
Concat(ss) == IF ss = <<>> THEN <<>> ELSE Head(ss) \o Concat(Tail(ss))

CallsOf(op) == SelectSeq(calls, LAMBDA c : c.op = op)

ArgsOf(op) == [k \in 1..Len(CallsOf(op)) |-> CallsOf(op)[k].arg]

IndexOf(track) == CHOOSE k \in 1..Len(unique_by_id_tracks) : unique_by_id_tracks[k].id = track.id

ScoreOf(track) == keys[IndexOf(track)]

Selecting == pc \in {"select", "report"}

Selected == pc \in {"report", "create", "add"} \/ (pc = "done" /\ catalog.found)

NamesOf(tracks) == {tracks[k].name : k \in 1..Len(tracks)}

\* C1: at every point of the run final_tracks holds no two entries of the same
\* name, no two of the same id, and at most top_n entries
C1_SelectionDistinct ==
    /\ \A a, b \in 1..Len(final_tracks) :
          a # b => /\ final_tracks[a].name # final_tracks[b].name
                   /\ final_tracks[a].id # final_tracks[b].id
    /\ Len(final_tracks) <= top_n_arg

\* C1: the loop has passed over a track of an already selected name, of a
\* catalog that repeats a track id, and has filled the top_n >= 2 places
C1_Witness ==
    /\ Selecting
    /\ top_n_arg >= 2
    /\ Len(final_tracks) = top_n_arg
    /\ Len(all_tracks) > Len(unique_by_id_tracks)
    /\ \E k \in 1..(i - 1) : \A a \in 1..Len(final_tracks) : final_tracks[a] # sorted_tracks[k]

\* C2: the number of selected tracks is min(N, D), D the number of distinct
\* names among the non-null fetched tracks; while the loop runs it is min(N,
\* distinct names passed over), and the track examined last is the N-th selected
C2_SelectedCount ==
    /\ Selected =>
          Len(final_tracks) = Min(top_n_arg, Cardinality(NamesOf(all_tracks)))
    /\ Selecting =>
          /\ Len(final_tracks)
                = Min(top_n_arg, Cardinality(NamesOf(SubSeq(sorted_tracks, 1, i - 1))))
          /\ Len(final_tracks) = top_n_arg => final_tracks[top_n_arg] = sorted_tracks[i - 1]
          /\ pc = "report" => (i > Len(sorted_tracks) \/ Len(final_tracks) = top_n_arg)

\* C2: a partial result: fewer uniquely named tracks than requested, though
\* more tracks than that were fetched
C2_Witness ==
    /\ pc = "report"
    /\ final_tracks # <<>>
    /\ Len(final_tracks) < top_n_arg
    /\ Len(unique_by_id_tracks) > Len(final_tracks)

PagingInv ==
    LET reqs == CallsOf("artist_albums")
        page(k) == ArtistAlbumsPage(catalog, reqs[k].arg[1], reqs[k].arg[2])
        got == {k \in 1..Len(reqs) : reqs[k].ok}
    IN /\ \A k \in 1..Len(reqs) : reqs[k].arg = <<50, 50 * (k - 1)>>
       /\ \A k \in 1..(Len(reqs) - 1) : reqs[k].ok /\ page(k).next
       /\ (pc = "artist_albums" /\ reqs # <<>>) => page(Len(reqs)).next
       /\ pc \notin {"search", "artist_albums", "raised"} /\ catalog.found =>
             /\ reqs # <<>>
             /\ ~page(Len(reqs)).next
             /\ all_releases = catalog.releases
       /\ all_releases = Concat([k \in 1..Cardinality(got) |-> page(k).items])

\* C3: the pages are requested with limit 50 at offsets 0, 50, 100, ... in
\* order, a next page exactly when the previous one signalled one; the
\* releases collected are the concatenation of the pages received, the whole
\* catalog once the loop has ended; and the loop ends
C3_PagingComplete ==
    /\ []PagingInv
    /\ (pc = "artist_albums") ~> (pc # "artist_albums")

\* C3: a catalog of three pages, the last of one release, fully collected
C3_Witness ==
    /\ pc = "albums"
    /\ Len(CallsOf("artist_albums")) = 3
    /\ Len(all_releases) = 101

BatchesOf(op, ids, ceiling, complete) ==
    LET batches == ArgsOf(op)
        total == Len(Concat(batches))
    IN /\ \A k \in 1..Len(batches) : Len(batches[k]) >= 1 /\ Len(batches[k]) <= ceiling
       /\ \A k \in 1..(Len(batches) - 1) : Len(batches[k]) = ceiling
       /\ total <= Len(ids)
       /\ Concat(batches) = SubSeq(ids, 1, total)
       /\ complete => total = Len(ids)

\* C4: sp.albums is called with batches of at most 20 ids, none empty, all but
\* the last of exactly 20, which concatenated are album_ids; sp.tracks
\* likewise with 50 over track_ids
C4_Batching ==
    /\ BatchesOf("albums", album_ids, 20,
                 pc \in {"tracks", "filter", "sorted", "select", "report", "create", "add"})
    /\ BatchesOf("tracks", track_ids, 50,
                 pc \in {"filter", "sorted", "select", "report", "create", "add"})

\* C4: 45 release ids were fetched in batches of 20, 20 and 5
C4_Witness ==
    /\ pc = "tracks"
    /\ Len(album_ids) = 45
    /\ [k \in 1..Len(ArgsOf("albums")) |-> Len(ArgsOf("albums")[k])] = <<20, 20, 5>>

\* C5: a null slot in a sp.albums or sp.tracks response raises nothing and no
\* null reaches final_tracks
C5_NullSlotHarmless ==
    /\ error # "TypeError"
    /\ \A k \in 1..Len(final_tracks) : ~IsNull(final_tracks[k])

Publisher == CallsOf("user_playlist_create") \o CallsOf("playlist_add_items")

\* C6: a run whose search finds no artist, or whose tracks are all filtered
\* out, issues no publisher call and ends after printing its own line; a run
\* that selected tracks prints a third line
C6_NoPlaylistWithoutTracks ==
    /\ (~catalog.found /\ pc \notin {"search", "raised"}) =>
          /\ pc = "done"
          /\ printed = <<Line("could_not_find_artist", 0)>>
          /\ Publisher = <<>>
          /\ ~playlist.created
    /\ (catalog.found /\ all_tracks = <<>>
          /\ pc \in {"sorted", "select", "report", "create", "add", "done"}) =>
          /\ pc \in {"sorted", "select", "report", "done"}
          /\ printed = IF pc = "done" THEN <<Line("found_no_popular_tracks", 0)>> ELSE <<>>
    /\ (Publisher # <<>> \/ playlist.created) =>
          catalog.found /\ all_tracks # <<>> /\ final_tracks # <<>>
    /\ (final_tracks # <<>> /\ pc \in {"create", "add", "done", "raised"}) =>
          printed[1] = Line("found_the_top", Len(final_tracks))

\* C6: tracks were fetched, every one of them null, and the run has ended
C6_Witness ==
    /\ pc = "done"
    /\ catalog.found
    /\ CallsOf("tracks") # <<>>
    /\ all_tracks = <<>>

ValidYear(p) == Len(p) = 4 /\ ~ToInt(p).raised /\ ToInt(p).val >= 1

ValidMonth(p) == Len(p) = 2 /\ ~ToInt(p).raised /\ ToInt(p).val \in 1..12

ValidDay(y, m, p) ==
    Len(p) = 2 /\ ~ToInt(p).raised /\ ToInt(p).val \in 1..DaysInMonth(ToInt(y).val, ToInt(m).val)

\* C7: parse_release_date raises nothing; "YYYY", "YYYY-MM" and "YYYY-MM-DD"
\* give YYYY-01-01, YYYY-MM-01 and YYYY-MM-DD, every other string the
\* current time
C7_ParseNeverFails ==
    pc = "parsed" =>
       LET parts == Split(date_str)
           y == ToInt(parts[1]).val
       IN /\ ~parsed.raised
          /\ IF Len(parts) = 1 /\ ValidYear(parts[1])
             THEN parsed.ord = MakeDate(y, 1, 1).ord
             ELSE IF Len(parts) = 2 /\ ValidYear(parts[1]) /\ ValidMonth(parts[2])
             THEN parsed.ord = MakeDate(y, ToInt(parts[2]).val, 1).ord
             ELSE IF /\ Len(parts) = 3 /\ ValidYear(parts[1]) /\ ValidMonth(parts[2])
                     /\ ValidDay(parts[1], parts[2], parts[3])
             THEN parsed.ord = MakeDate(y, ToInt(parts[2]).val, ToInt(parts[3]).val).ord
             ELSE parsed.ord = clock

\* C8: once sorted, each selected track comes before the next one in the
\* order "greater score first, equal scores in the order of
\* unique_by_id_tracks" (so the whole selection is in that order), and each
\* has the highest score of its name, the earliest of those of that score
C8_SelectionOrder ==
    (Selecting \/ Selected) =>
       LET at == [a \in 1..Len(final_tracks) |-> IndexOf(final_tracks[a])]
       IN /\ \A a \in 1..(Len(final_tracks) - 1) :
                \/ keys[at[a]] > keys[at[a + 1]]
                \/ keys[at[a]] = keys[at[a + 1]] /\ at[a] < at[a + 1]
          /\ \A a \in 1..Len(final_tracks) : \A k \in 1..Len(unique_by_id_tracks) :
                unique_by_id_tracks[k].name = final_tracks[a].name =>
                   \/ keys[k] < keys[at[a]]
                   \/ keys[k] = keys[at[a]] /\ at[a] <= k

\* C8: two tracks of equal score were both selected, and a third track of a
\* selected name and a lower score was passed over
C8_Witness ==
    /\ pc = "report"
    /\ Len(final_tracks) = 2
    /\ ScoreOf(final_tracks[1]) = ScoreOf(final_tracks[2])
    /\ \E k \in 1..Len(unique_by_id_tracks) :
          /\ unique_by_id_tracks[k].name = final_tracks[1].name
          /\ keys[k] < ScoreOf(final_tracks[1])

\* C9: two tracks of equal popularity and equal release date have equal sort
\* keys, whatever time passes between the computations of the two keys
C9_ScorePure ==
    \A a, b \in 1..Len(keys) :
       (/\ unique_by_id_tracks[a].popularity = unique_by_id_tracks[b].popularity
        /\ unique_by_id_tracks[a].release_date = unique_by_id_tracks[b].release_date)
       => keys[a] = keys[b]

\* C10: a failed service call is the last call of the run and ends it; the
\* playlist is as the successful publisher calls left it
C10_HaltOnFailure ==
    /\ \A k \in 1..(Len(calls) - 1) : calls[k].ok
    /\ (\E k \in 1..Len(calls) : ~calls[k].ok) => pc = "raised" /\ error = "SpotifyException"
    /\ \A k \in 1..Len(calls) :
          calls[k].op \in {"search", "artist_albums", "albums", "tracks",
                           "user_playlist_create", "playlist_add_items"}
    /\ playlist.created = (\E k \in 1..Len(calls) : calls[k].op = "user_playlist_create" /\ calls[k].ok)
    /\ playlist.items
          = Concat([k \in 1..Len(SelectSeq(CallsOf("playlist_add_items"), LAMBDA c : c.ok))
                      |-> SelectSeq(CallsOf("playlist_add_items"), LAMBDA c : c.ok)[k].arg])

\* C10: the second playlist_add_items call failed: the playlist stays, with
\* the first batch of 100 in it
C10_Witness ==
    /\ pc = "raised"
    /\ playlist.created
    /\ Len(playlist.items) = 100
    /\ Len(CallsOf("playlist_add_items")) = 2

=============================================================================
